---- MODULE Spec2Model ----
(***************************************************************************)
(* A model of the five rate limiters of devkit-rl (devkit-rl/src):         *)
(* LeakyBucket, FixedWindow, TokenBucket, SlidingWindowLog and             *)
(* SlidingWindowCount.  Each limiter has its own variables, its own        *)
(* initial predicate and its own specification; a specification leaves the *)
(* variables of the other limiters untouched.                              *)
(***************************************************************************)
EXTENDS Integers, Sequences, FiniteSets, TLC

(***************************************************************************)
(* Bounds of the model.                                                    *)
(***************************************************************************)
\* allow() calls made on one LeakyBucket; each may run concurrently with
\* every other (a thread that calls twice is two calls, one after the other).
\* The calls are numbered in the order in which they first take the lock.
NumCallers == 3
\* LeakyBucket::new is given a capacity in 1..MaxCapacity ...
MaxCapacity == 2
\* ... and a leak_rate in 1..MaxLeakRate.
MaxLeakRate == 2
\* leak_interval, in clock ticks.
LeakInterval == 2

\* Threads that share one non-blocking limiter; each makes one allow_n call,
\* concurrently with the others.  They are numbered in the order in which
\* they take the lock.
NumThreads == 2

\* The four non-blocking limiters: sizes and capacities are in 1..MaxSize,
MaxSize == 2
\* refill rates in 0..MaxRate,
MaxRate == 2
\* window and refill intervals in 1..MaxInterval clock ticks,
MaxInterval == 3
\* a SlidingWindowCount has 1..MaxBuckets buckets
MaxBuckets == 3
\* of 1..MaxBucketInterval clock ticks each,
MaxBucketInterval == 2
\* a call asks for 0..MaxUnits units,
MaxUnits == 3
\* and the clock runs from 0 (the construction) to MaxTime.
MaxTime == 6
\* TLC's integers are 32 bits wide: the u64 of the code is modelled as a word
\* of Bits64 bits and its u32 as a word of Bits32 bits.
Bits64 == 10
Bits32 == 5

Callers == 1..NumCallers
Threads == 1..NumThreads
Times == 0..MaxTime
Units == 0..MaxUnits

U64Mod == 2 ^ Bits64
U64Max == U64Mod - 1
U32Mod == 2 ^ Bits32
U32Max == U32Mod - 1

(***************************************************************************)
(* State.                                                                  *)
(***************************************************************************)
\* LeakyBucket (leaky_bucket.rs)
VARIABLES
  lb_capacity,      \* LeakyBucketInner.capacity
  lb_leak_rate,     \* LeakyBucketInner.leak_rate
  lb_current_level, \* LeakyBucketInner.current_level (the shared, locked copy)
  lb_lock,          \* holder of the Mutex around LeakyBucketInner, 0 when free
  lb_queue,         \* the mpsc channel of oneshot senders, oldest first
  lb_signalled,     \* per call: its oneshot channel holds the release signal
  lb_pc,            \* per call: its position in LeakyBucket::allow
  lb_loop_pc,       \* the leak thread's position in LeakyBucketInner::start
  lb_loop_i,        \* the leak thread's "for _ in 0..leak_rate" counter
  lb_elapsed,       \* min(now - last_leaktime, leak_interval)
  lb_sleep_left,    \* ticks left of the leak thread's thread::sleep
  lb_reserve_order, \* history: calls in the order of their reserve step
  lb_enqueue_order, \* history: calls in the order their sender was enqueued
  lb_release_order, \* history: calls in the order their signal was sent
  lb_release_ages   \* history: age in ticks of each release younger than leak_interval

lb_vars == <<lb_capacity, lb_leak_rate, lb_current_level, lb_lock, lb_queue,
             lb_signalled, lb_pc, lb_loop_pc, lb_loop_i, lb_elapsed,
             lb_sleep_left, lb_reserve_order, lb_enqueue_order,
             lb_release_order, lb_release_ages>>

\* FixedWindow (fixed_window.rs)
VARIABLES
  fw_size,          \* FixedWindowInner.size
  fw_interval,      \* FixedWindowInner.interval
  fw_count,         \* FixedWindowInner.count
  fw_last_update,   \* FixedWindowInner.last_update
  fw_next_win_time, \* FixedWindowInner.next_win_time
  fw_now,           \* the clock Instant::now() reads
  fw_admitted,      \* history: units admitted at each tick
  fw_ret            \* what the last allow_n returned ("none" before the first,
                    \* "panic" when it panicked holding the lock)

fw_vars == <<fw_size, fw_interval, fw_count, fw_last_update, fw_next_win_time,
             fw_now, fw_admitted, fw_ret>>

\* TokenBucket (token_bucket.rs)
VARIABLES
  tb_tokens,           \* TokenBucketInner.tokens
  tb_capacity,         \* TokenBucketInner.capacity
  tb_refill_rate,      \* TokenBucketInner.refill_rate
  tb_refill_interval,  \* TokenBucketInner.refill_interval
  tb_last_refill_time, \* TokenBucketInner.last_refill_time
  tb_now,              \* the clock Instant::now() reads
  tb_admitted,         \* history: units admitted at each tick
  tb_ret               \* what the last allow_n returned ("none" before the
                       \* first, "panic" when it panicked holding the lock)

tb_vars == <<tb_tokens, tb_capacity, tb_refill_rate, tb_refill_interval,
             tb_last_refill_time, tb_now, tb_admitted, tb_ret>>

\* SlidingWindowLog (sliding_window_log.rs)
VARIABLES
  swl_size,     \* SlidingWindowLogInner.size
  swl_interval, \* SlidingWindowLogInner.interval
  swl_logs,     \* SlidingWindowLogInner.logs, one timestamp per admitted unit
  swl_now,      \* the clock Instant::now() reads
  swl_admitted, \* history: units admitted at each tick
  swl_ret       \* what the last allow_n returned ("none" before the first,
                \* "panic" when it panicked holding the lock)

swl_vars == <<swl_size, swl_interval, swl_logs, swl_now, swl_admitted, swl_ret>>

\* SlidingWindowCount (sliding_window_count.rs)
VARIABLES
  swc_interval,        \* the interval given to SlidingWindowCount::new
  swc_buckets,         \* SlidingWindowCountInner.buckets, indexed from 0
  swc_win_size,        \* SlidingWindowCountInner.win_size
  swc_bucket_interval, \* SlidingWindowCountInner.bucket_interval
  swc_last_update,     \* SlidingWindowCountInner.last_update
  swc_last_index,      \* SlidingWindowCountInner.last_index
  swc_now,             \* the clock Instant::now() reads
  swc_admitted,        \* history: units admitted at each tick
  swc_ret              \* what the last allow_n returned ("none" before the
                       \* first, "panic" when it panicked holding the lock)

swc_vars == <<swc_interval, swc_buckets, swc_win_size, swc_bucket_interval,
              swc_last_update, swc_last_index, swc_now, swc_admitted, swc_ret>>

\* The build
VARIABLES
  overflow_checks   \* the crate is compiled with overflow checks (a debug
                    \* build): an integer +, -, * that overflows panics
                    \* instead of wrapping

\* Threads that call allow_n on one shared non-blocking limiter, one call each
VARIABLES
  th_on,      \* the limiter they share: "FW", "TB", "SWL", "SWC" ("none": no threads)
  th_lock,    \* holder of the limiter's Mutex, 0 when free
  th_pc,      \* per thread: its position in allow_n
  th_n,       \* per thread: the n of its call
  th_now,     \* per thread: the Instant::now() its call has read
  th_ret,     \* per thread: what its call returned ("none" until it returns)
  th_serial   \* per thread: what its call does when it runs alone on the
              \* state it found, <<the limiter's fields after it, its return>>

th_vars == <<th_on, th_lock, th_pc, th_n, th_now, th_ret, th_serial>>

vars == <<lb_vars, fw_vars, tb_vars, swl_vars, swc_vars, overflow_checks, th_vars>>

\* What a step of one limiter leaves alone: the other limiters and the build,
\* and the threads when the step is not one of theirs.
FW_Limiters == <<lb_vars, tb_vars, swl_vars, swc_vars, overflow_checks>>
TB_Limiters == <<lb_vars, fw_vars, swl_vars, swc_vars, overflow_checks>>
SWL_Limiters == <<lb_vars, fw_vars, tb_vars, swc_vars, overflow_checks>>
SWC_Limiters == <<lb_vars, fw_vars, tb_vars, swl_vars, overflow_checks>>
LB_Others == <<fw_vars, tb_vars, swl_vars, swc_vars, overflow_checks, th_vars>>
FW_Others == <<FW_Limiters, th_vars>>
TB_Others == <<TB_Limiters, th_vars>>
SWL_Others == <<SWL_Limiters, th_vars>>
SWC_Others == <<SWC_Limiters, th_vars>>

Min(a, b) == IF a < b THEN a ELSE b
Max(a, b) == IF a > b THEN a ELSE b

\* The 1-based position of x in the sequence s, 0 when x is not in s.
RECURSIVE Pos(_, _)
Pos(s, x) ==
  IF s = <<>> THEN 0
  ELSE IF s[Len(s)] = x /\ Pos(SubSeq(s, 1, Len(s) - 1), x) = 0 THEN Len(s)
  ELSE Pos(SubSeq(s, 1, Len(s) - 1), x)

InSeq(s, x) == \E i \in 1..Len(s) : s[i] = x

\* x comes strictly before y in s (both are in s).
Before(s, x, y) == InSeq(s, x) /\ InSeq(s, y) /\ Pos(s, x) < Pos(s, y)

(***************************************************************************)
(* LeakyBucket (leaky_bucket.rs)                                           *)
(*                                                                         *)
(* Time is kept relative: the leak loop only ever uses                     *)
(* now - last_leaktime, and only through                                   *)
(* leak_interval.saturating_sub(now - last_leaktime), so the model keeps   *)
(* lb_elapsed = min(now - last_leaktime, leak_interval) and the remaining  *)
(* time of a running thread::sleep.                                        *)
(***************************************************************************)
\* LeakyBucket::new / LeakyBucketInner::new: level 0, an empty channel, the
\* leak thread spawned at the top of its loop with last_leaktime = now.
LB_New(leak_rate, capacity) ==
  /\ lb_capacity = capacity
  /\ lb_leak_rate = leak_rate
  /\ lb_current_level = 0
  /\ lb_lock = 0
  /\ lb_queue = <<>>
  /\ lb_signalled = [c \in Callers |-> FALSE]
  /\ lb_pc = [c \in Callers |-> "idle"]
  /\ lb_loop_pc = "top"
  /\ lb_loop_i = 0
  /\ lb_elapsed = 0
  /\ lb_sleep_left = 0
  /\ lb_reserve_order = <<>>
  /\ lb_enqueue_order = <<>>
  /\ lb_release_order = <<>>
  /\ lb_release_ages = <<>>

LB_Init ==
  \E leak_rate \in 1..MaxLeakRate, capacity \in 1..MaxCapacity :
    LB_New(leak_rate, capacity)

\* LeakyBucketInner::try_allow: the value returned.
LB_TryAllowMutantGt(level, capacity) == ~(level > capacity)
LB_TryAllowMutantNoCheck(level, capacity) == TRUE
LB_TryAllowOk(level, capacity) == ~(level >= capacity)

\* LeakyBucketInner::leak: the level after the guarded decrement.
LB_LeakLevelMutantKeep(level) == level
LB_LeakLevel(level) == IF level > 0 THEN level - 1 ELSE level

\* self.inner.lock() at the head of try_allow, create_notify and leak: the
\* call at position from takes the free mutex and enters that method.
LB_Lock(c, from, to) ==
  /\ lb_pc[c] = from
  /\ lb_lock = 0
  /\ lb_lock' = c
  /\ lb_pc' = [lb_pc EXCEPT ![c] = to]
  /\ UNCHANGED <<lb_capacity, lb_leak_rate, lb_current_level, lb_queue,
                 lb_signalled, lb_loop_pc, lb_loop_i, lb_elapsed, lb_sleep_left,
                 lb_reserve_order, lb_enqueue_order, lb_release_order,
                 lb_release_ages>>
  /\ UNCHANGED LB_Others

LB_LockTryAllow(c) ==
  /\ \A d \in Callers : d < c => lb_pc[d] # "idle"
  /\ LB_Lock(c, "idle", "try_allow")
LB_LockCreateNotify(c) == LB_Lock(c, "reserved", "create_notify")
LB_LockLeak(c) == LB_Lock(c, "signalled", "leak")

\* LeakyBucket::try_allow under the lock, then allow()'s early return: at
\* capacity the call returns false, otherwise it reserves a slot.
LB_TryAllow(c) ==
  /\ lb_pc[c] = "try_allow"
  /\ lb_lock = c
  /\ lb_lock' = 0
  /\ IF LB_TryAllowOk(lb_current_level, lb_capacity)
       THEN /\ lb_current_level' = lb_current_level + 1
            /\ lb_pc' = [lb_pc EXCEPT ![c] = "reserved"]
            /\ lb_reserve_order' = Append(lb_reserve_order, c)
       ELSE /\ lb_pc' = [lb_pc EXCEPT ![c] = "rejected"]
            /\ UNCHANGED <<lb_current_level, lb_reserve_order>>
  /\ UNCHANGED <<lb_capacity, lb_leak_rate, lb_queue, lb_signalled, lb_loop_pc,
                 lb_loop_i, lb_elapsed, lb_sleep_left, lb_enqueue_order,
                 lb_release_order, lb_release_ages>>
  /\ UNCHANGED LB_Others

\* The mutex when create_notify has returned rx to call c: the MutexGuard is
\* a local of create_notify and is dropped at its return, so the mutex is free.
LB_NotifyGuardMutantHeld(c) == c
LB_NotifyGuard(c) == 0

\* LeakyBucket::create_notify under the lock: a fresh oneshot channel, its
\* sender put on the mpsc channel; the call goes on to rx.recv().
LB_CreateNotify(c) ==
  /\ lb_pc[c] = "create_notify"
  /\ lb_lock = c
  /\ lb_lock' = LB_NotifyGuard(c)
  /\ lb_queue' = Append(lb_queue, c)
  /\ lb_enqueue_order' = Append(lb_enqueue_order, c)
  /\ lb_pc' = [lb_pc EXCEPT ![c] = "recv"]
  /\ UNCHANGED <<lb_capacity, lb_leak_rate, lb_current_level, lb_signalled,
                 lb_loop_pc, lb_loop_i, lb_elapsed, lb_sleep_left,
                 lb_reserve_order, lb_release_order, lb_release_ages>>
  /\ UNCHANGED LB_Others

\* rx.recv() in allow(): returns once the leak thread has sent the signal.
LB_Recv(c) ==
  /\ lb_pc[c] = "recv"
  /\ lb_signalled[c]
  /\ lb_pc' = [lb_pc EXCEPT ![c] = "signalled"]
  /\ UNCHANGED <<lb_capacity, lb_leak_rate, lb_current_level, lb_lock, lb_queue,
                 lb_signalled, lb_loop_pc, lb_loop_i, lb_elapsed, lb_sleep_left,
                 lb_reserve_order, lb_enqueue_order, lb_release_order,
                 lb_release_ages>>
  /\ UNCHANGED LB_Others

\* LeakyBucket::leak under the lock, then allow() returns true.
LB_Leak(c) ==
  /\ lb_pc[c] = "leak"
  /\ lb_lock = c
  /\ lb_lock' = 0
  /\ lb_current_level' = LB_LeakLevel(lb_current_level)
  /\ lb_pc' = [lb_pc EXCEPT ![c] = "admitted"]
  /\ UNCHANGED <<lb_capacity, lb_leak_rate, lb_queue, lb_signalled, lb_loop_pc,
                 lb_loop_i, lb_elapsed, lb_sleep_left, lb_reserve_order,
                 lb_enqueue_order, lb_release_order, lb_release_ages>>
  /\ UNCHANGED LB_Others

\* LeakyBucketInner::start, head of the loop: wait_time is
\* leak_interval.saturating_sub(now - last_leaktime); sleep when it is positive.
LB_WaitTime == LeakInterval - Min(lb_elapsed, LeakInterval)

LB_LoopTop ==
  /\ lb_loop_pc = "top"
  /\ IF LB_WaitTime > 0
       THEN /\ lb_loop_pc' = "sleep"
            /\ lb_sleep_left' = LB_WaitTime
       ELSE /\ lb_loop_pc' = "stamp"
            /\ lb_sleep_left' = 0
  /\ UNCHANGED <<lb_capacity, lb_leak_rate, lb_current_level, lb_lock, lb_queue,
                 lb_signalled, lb_pc, lb_loop_i, lb_elapsed, lb_reserve_order,
                 lb_enqueue_order, lb_release_order, lb_release_ages>>
  /\ UNCHANGED LB_Others

\* thread::sleep(wait_time) returns, no earlier than wait_time later.
LB_LoopWake ==
  /\ lb_loop_pc = "sleep"
  /\ lb_sleep_left = 0
  /\ lb_loop_pc' = "stamp"
  /\ UNCHANGED <<lb_capacity, lb_leak_rate, lb_current_level, lb_lock, lb_queue,
                 lb_signalled, lb_pc, lb_loop_i, lb_elapsed, lb_sleep_left,
                 lb_reserve_order, lb_enqueue_order, lb_release_order,
                 lb_release_ages>>
  /\ UNCHANGED LB_Others

\* self.last_leaktime = Instant::now(), and the for loop starts at 0.
LB_LoopStamp ==
  /\ lb_loop_pc = "stamp"
  /\ lb_elapsed' = 0
  /\ lb_loop_i' = 0
  /\ lb_loop_pc' = IF lb_leak_rate > 0 THEN "recv" ELSE "top"
  /\ UNCHANGED <<lb_capacity, lb_leak_rate, lb_current_level, lb_lock, lb_queue,
                 lb_signalled, lb_pc, lb_sleep_left, lb_reserve_order,
                 lb_enqueue_order, lb_release_order, lb_release_ages>>
  /\ UNCHANGED LB_Others

\* tx.send(()) on the oneshot sender of call c: its receiver holds the signal.
LB_SendMutantDropped(sig, c) == sig
LB_Send(sig, c) == [sig EXCEPT ![c] = TRUE]

\* The sender the leak thread takes off the mpsc channel, and what is left.
LB_DequeueMutantLast(q) == <<q[Len(q)], SubSeq(q, 1, Len(q) - 1)>>
LB_Dequeue(q) == <<Head(q), Tail(q)>>

\* One pass of "for _ in 0..leak_rate": rx.recv() blocks while the channel is
\* empty (the leak thread's own clone of the Sender keeps it connected), then
\* tx.send(()) releases the waiter taken.
LB_LoopRecv ==
  /\ lb_loop_pc = "recv"
  /\ lb_queue # <<>>
  /\ LET d == LB_Dequeue(lb_queue)
     IN /\ lb_queue' = d[2]
        /\ lb_signalled' = LB_Send(lb_signalled, d[1])
        /\ lb_release_order' = Append(lb_release_order, d[1])
  /\ lb_release_ages' = Append(lb_release_ages, 0)
  /\ lb_loop_i' = lb_loop_i + 1
  /\ lb_loop_pc' = IF lb_loop_i + 1 < lb_leak_rate THEN "recv" ELSE "top"
  /\ UNCHANGED <<lb_capacity, lb_leak_rate, lb_current_level, lb_lock, lb_pc,
                 lb_elapsed, lb_sleep_left, lb_reserve_order, lb_enqueue_order>>
  /\ UNCHANGED LB_Others

\* The ages one tick later; a release as old as leak_interval is forgotten.
RECURSIVE LB_Aged(_)
LB_Aged(ages) ==
  IF ages = <<>> THEN <<>>
  ELSE IF Head(ages) + 1 >= LeakInterval THEN LB_Aged(Tail(ages))
  ELSE <<Head(ages) + 1>> \o LB_Aged(Tail(ages))

\* The clock advances by one tick.
LB_Tick ==
  /\ lb_elapsed' = Min(lb_elapsed + 1, LeakInterval)
  /\ lb_sleep_left' = Max(lb_sleep_left - 1, 0)
  /\ lb_release_ages' = LB_Aged(lb_release_ages)
  /\ UNCHANGED <<lb_capacity, lb_leak_rate, lb_current_level, lb_lock, lb_queue,
                 lb_signalled, lb_pc, lb_loop_pc, lb_loop_i, lb_reserve_order,
                 lb_enqueue_order, lb_release_order>>
  /\ UNCHANGED LB_Others

LB_CallerStep(c) ==
  \/ LB_LockTryAllow(c)
  \/ LB_TryAllow(c)
  \/ LB_LockCreateNotify(c)
  \/ LB_CreateNotify(c)
  \/ LB_Recv(c)
  \/ LB_LockLeak(c)
  \/ LB_Leak(c)

LB_LoopStep ==
  \/ LB_LoopTop
  \/ LB_LoopWake
  \/ LB_LoopStamp
  \/ LB_LoopRecv

LB_Next ==
  \/ \E c \in Callers : LB_CallerStep(c)
  \/ LB_LoopStep
  \/ LB_Tick

(***************************************************************************)
(* The four non-blocking limiters.  Each allow_n runs under the limiter's  *)
(* mutex from its first statement to its return, so it is one atomic step. *)
(* Instants are clock ticks counted from the construction (tick 0);        *)
(* Duration / Duration through div_duration_f64 and a cast to an integer   *)
(* is the whole-number quotient.  xx_admitted is history: the units        *)
(* admitted at each tick; xx_ret is what the last call returned.           *)
(***************************************************************************)

\* The sum of f over lo..hi (0 when the range is empty).
RECURSIVE SumRange(_, _, _)
SumRange(f, lo, hi) == IF lo > hi THEN 0 ELSE f[hi] + SumRange(f, lo, hi - 1)

NoneAdmitted == [t \in Times |-> 0]

\* Units admitted at the ticks of the half-open span [from, from + len).
AdmittedFrom(adm, from, len) == SumRange(adm, from, Min(from + len - 1, MaxTime))

\* Units admitted at the ticks of the closed span [to - len, to].
AdmittedUpTo(adm, to, len) == SumRange(adm, Max(to - len, 0), to)

\* u64::saturating_add
SaturatingAddMutantWrap(a, b) == (a + b) % U64Mod
SaturatingAdd(a, b) == Min(a + b, U64Max)

(***************************************************************************)
(* FixedWindow (fixed_window.rs)                                           *)
(***************************************************************************)
\* FixedWindow::new / FixedWindowInner::new at tick 0.
FW_New(size, interval) ==
  /\ fw_size = size
  /\ fw_interval = interval
  /\ fw_count = 0
  /\ fw_last_update = 0
  /\ fw_next_win_time = 0 + interval
  /\ fw_now = 0
  /\ fw_admitted = NoneAdmitted
  /\ fw_ret = "none"

FW_Init == \E size \in 1..MaxSize, interval \in 1..MaxInterval : FW_New(size, interval)

\* FixedWindow::new with any size and interval, zero included: new checks
\* neither and always returns a limiter.
FW_AnyInit == \E size \in 0..MaxSize, interval \in 0..MaxInterval : FW_New(size, interval)

\* (now - last_update).div_duration_f64(interval) as u32: the cast saturates.
\* With a zero interval the f64 quotient is NaN for a zero elapsed time, cast
\* to 0, and infinite otherwise, cast to u32::MAX.
FW_pass_win_count(now, last_update, interval) ==
  IF interval = 0
    THEN IF now - last_update = 0 THEN 0 ELSE U32Max
    ELSE Min((now - last_update) \div interval, U32Max)

\* The window bookkeeping of allow_n: <<count, last_update, next_win_time>>
\* after the "if now >= inner.next_win_time" block.
FW_WindowMutantAlwaysReset(now, count, last_update, next_win_time, interval) ==
  <<0, last_update, next_win_time>>
FW_Window(now, count, last_update, next_win_time, interval) ==
  IF now >= next_win_time
    THEN LET pass_win_count == FW_pass_win_count(now, last_update, interval)
             lu == last_update + interval * pass_win_count
         IN <<0, lu, lu + interval>>
    ELSE <<count, last_update, next_win_time>>

\* "inner.count + n", a u64 sum: it is out of range ...
FW_sum_overflows(count, n) == count + n > U64Max
\* ... and wraps in a build without overflow checks.
FW_sum(count, n) == (count + n) % U64Mod

\* The admission test of allow_n: "inner.count + n > inner.size" is false.
FW_Fits(count, n, size) == ~(FW_sum(count, n) > size)

\* FixedWindow::allow_n(n).  lock().expect(..) panics once an earlier call has
\* panicked holding the lock, so no call runs after a panic.  The history
\* counts the units admitted at one tick up to size + 1 (more than size).
FW_allow_n(n) ==
  LET w == FW_Window(fw_now, fw_count, fw_last_update, fw_next_win_time, fw_interval)
  IN /\ fw_ret # "panic"
     /\ fw_last_update' = w[2]
     /\ fw_next_win_time' = w[3]
     /\ IF overflow_checks /\ FW_sum_overflows(w[1], n)
          THEN /\ fw_count' = w[1]
               /\ fw_admitted' = fw_admitted
               /\ fw_ret' = "panic"
          ELSE IF FW_Fits(w[1], n, fw_size)
          THEN /\ fw_count' = FW_sum(w[1], n)
               /\ fw_admitted' = [fw_admitted EXCEPT ![fw_now] = Min(@ + n, fw_size + 1)]
               /\ fw_ret' = "true"
          ELSE /\ fw_count' = w[1]
               /\ fw_admitted' = fw_admitted
               /\ fw_ret' = "false"
     /\ UNCHANGED <<fw_size, fw_interval, fw_now>>
     /\ UNCHANGED FW_Others

\* The clock advances by one tick.
FW_Tick ==
  /\ fw_now < MaxTime
  /\ fw_now' = fw_now + 1
  /\ UNCHANGED <<fw_size, fw_interval, fw_count, fw_last_update, fw_next_win_time,
                 fw_admitted, fw_ret>>
  /\ UNCHANGED FW_Others

FW_Next ==
  \/ \E n \in Units : FW_allow_n(n)
  \/ FW_Tick

\* The limiter is left alone for LongSleepWindows whole windows, more than a
\* u32 counts.  Instants are counted from a new origin that many windows
\* later, so the stored instants move back by the time slept and the
\* history of the ticks before the new origin is dropped; the window
\* boundaries stay where they were.  The limiter is left alone for less than
\* twice that time.
LongSleepWindows == U32Max + 1

FW_LongSleep ==
  LET slept == LongSleepWindows * fw_interval
  IN /\ fw_now - fw_last_update < slept
     /\ fw_last_update' = fw_last_update - slept
     /\ fw_next_win_time' = fw_next_win_time - slept
     /\ fw_admitted' = NoneAdmitted
     /\ UNCHANGED <<fw_size, fw_interval, fw_count, fw_now, fw_ret>>
     /\ UNCHANGED FW_Others

\* The calls of the wide specification ask for any number of units a u64 holds
\* (the small ones and the largest).
WideUnits == Units \cup {U64Max - 1, U64Max}

FW_WideNext ==
  \/ \E n \in WideUnits : FW_allow_n(n)
  \/ FW_Tick

FW_IdleNext ==
  \/ FW_Next
  \/ FW_LongSleep

(***************************************************************************)
(* TokenBucket (token_bucket.rs)                                           *)
(***************************************************************************)
\* TokenBucket::new at tick 0: the bucket starts full.
TB_New(capacity, refill_rate, refill_interval) ==
  /\ tb_tokens = capacity
  /\ tb_capacity = capacity
  /\ tb_refill_rate = refill_rate
  /\ tb_refill_interval = refill_interval
  /\ tb_last_refill_time = 0
  /\ tb_now = 0
  /\ tb_admitted = NoneAdmitted
  /\ tb_ret = "none"

TB_Init ==
  \E capacity \in 1..MaxSize, refill_rate \in 0..MaxRate,
     refill_interval \in 1..MaxInterval :
    TB_New(capacity, refill_rate, refill_interval)

\* elapsed.div_duration_f64(self.refill_interval) as u64
TB_interval_count(elapsed, refill_interval) ==
  Min(elapsed \div refill_interval, U64Max)

\* interval_count * self.refill_rate, a u64 product: it wraps in a build
\* without overflow checks ...
TB_tokens_to_add(interval_count, refill_rate) ==
  (interval_count * refill_rate) % U64Mod

\* ... and panics in a build with them, when advance gets as far as the
\* product and the product is out of range.
TB_advance_overflows(now, last_refill_time, refill_rate, refill_interval) ==
  LET elapsed == now - last_refill_time
  IN /\ ~(elapsed < refill_interval)
     /\ TB_interval_count(elapsed, refill_interval) * refill_rate > U64Max

\* self.refill_interval.checked_mul(interval_count as u32): the cast keeps
\* the low 32 bits.
TB_passed_time(refill_interval, interval_count) ==
  refill_interval * (interval_count % U32Mod)

\* TokenBucketInner::advance: <<tokens, last_refill_time>> after the call.
TB_advanceMutantNoCap(now, tokens, last_refill_time, capacity, refill_rate, refill_interval) ==
  LET elapsed == now - last_refill_time
      interval_count == TB_interval_count(elapsed, refill_interval)
  IN IF elapsed < refill_interval THEN <<tokens, last_refill_time>>
     ELSE <<SaturatingAdd(tokens, TB_tokens_to_add(interval_count, refill_rate)),
            last_refill_time + TB_passed_time(refill_interval, interval_count)>>
TB_advanceMutantSnapNow(now, tokens, last_refill_time, capacity, refill_rate, refill_interval) ==
  LET elapsed == now - last_refill_time
      interval_count == TB_interval_count(elapsed, refill_interval)
  IN IF elapsed < refill_interval THEN <<tokens, last_refill_time>>
     ELSE <<Min(SaturatingAdd(tokens, TB_tokens_to_add(interval_count, refill_rate)),
                capacity),
            now>>
TB_advance(now, tokens, last_refill_time, capacity, refill_rate, refill_interval) ==
  LET elapsed == now - last_refill_time
  IN IF elapsed < refill_interval
       THEN <<tokens, last_refill_time>>
       ELSE LET interval_count == TB_interval_count(elapsed, refill_interval)
                tokens_to_add == TB_tokens_to_add(interval_count, refill_rate)
                passed_time == TB_passed_time(refill_interval, interval_count)
            IN <<Min(SaturatingAdd(tokens, tokens_to_add), capacity),
                 last_refill_time + passed_time>>

\* TokenBucket::allow_n(n).  lock().expect(..) panics once an earlier call
\* has panicked holding the lock, so no call runs after a panic.  The history
\* counts the units admitted at one tick up to capacity + 1 (more than
\* capacity).
TB_allow_n(n) ==
  LET a == TB_advance(tb_now, tb_tokens, tb_last_refill_time, tb_capacity,
                      tb_refill_rate, tb_refill_interval)
  IN /\ tb_ret # "panic"
     /\ IF overflow_checks
           /\ TB_advance_overflows(tb_now, tb_last_refill_time, tb_refill_rate,
                                   tb_refill_interval)
          THEN /\ tb_last_refill_time' = tb_last_refill_time
               /\ tb_tokens' = tb_tokens
               /\ tb_admitted' = tb_admitted
               /\ tb_ret' = "panic"
          ELSE IF n > a[1]
          THEN /\ tb_last_refill_time' = a[2]
               /\ tb_tokens' = a[1]
               /\ tb_admitted' = tb_admitted
               /\ tb_ret' = "false"
          ELSE /\ tb_last_refill_time' = a[2]
               /\ tb_tokens' = a[1] - n
               /\ tb_admitted' = [tb_admitted EXCEPT ![tb_now] = Min(@ + n, tb_capacity + 1)]
               /\ tb_ret' = "true"
     /\ UNCHANGED <<tb_capacity, tb_refill_rate, tb_refill_interval, tb_now>>
     /\ UNCHANGED TB_Others

\* The clock advances by one tick.
TB_Tick ==
  /\ tb_now < MaxTime
  /\ tb_now' = tb_now + 1
  /\ UNCHANGED <<tb_tokens, tb_capacity, tb_refill_rate, tb_refill_interval,
                 tb_last_refill_time, tb_admitted, tb_ret>>
  /\ UNCHANGED TB_Others

TB_Next ==
  \/ \E n \in Units : TB_allow_n(n)
  \/ TB_Tick

\* The limiter is left alone for LongSleepWindows whole refill intervals;
\* instants are then counted from a new origin that much later (as in
\* FW_LongSleep).  The limiter is left alone for less than twice that time.
TB_LongSleep ==
  LET slept == LongSleepWindows * tb_refill_interval
  IN /\ tb_now - tb_last_refill_time < slept
     /\ tb_last_refill_time' = tb_last_refill_time - slept
     /\ tb_admitted' = NoneAdmitted
     /\ UNCHANGED <<tb_tokens, tb_capacity, tb_refill_rate, tb_refill_interval,
                    tb_now, tb_ret>>
     /\ UNCHANGED TB_Others

\* The refill rates of the wide specification: any a u64 holds (the small
\* ones, a large one and the largest).
WideRates == (0..MaxRate) \cup {U64Mod \div 2, U64Max}

TB_WideInit ==
  \E capacity \in 1..MaxSize, refill_rate \in WideRates,
     refill_interval \in 1..MaxInterval :
    TB_New(capacity, refill_rate, refill_interval)

TB_IdleNext ==
  \/ TB_Next
  \/ TB_LongSleep


(***************************************************************************)
(* SlidingWindowLog (sliding_window_log.rs)                                *)
(***************************************************************************)
\* SlidingWindowLog::new: an empty log.
SWL_New(size, interval) ==
  /\ swl_size = size
  /\ swl_interval = interval
  /\ swl_logs = <<>>
  /\ swl_now = 0
  /\ swl_admitted = NoneAdmitted
  /\ swl_ret = "none"

SWL_Init == \E size \in 1..MaxSize, interval \in 1..MaxInterval : SWL_New(size, interval)

\* SlidingWindowLogInner::append: n copies of now at the end of the log.
SWL_appendMutantOne(logs, n, now) == logs \o <<now>>
SWL_append(logs, n, now) == logs \o [i \in 1..n |-> now]

\* SlidingWindowLogInner::try_accept: <<accepted, logs after the call>>.
SWL_try_acceptMutantPartial(logs, n, now, size) ==
  IF Len(logs) + n <= size
    THEN <<TRUE, SWL_append(logs, n, now)>>
    ELSE <<FALSE, SWL_append(logs, size - Len(logs), now)>>
SWL_try_accept(logs, n, now, size) ==
  IF Len(logs) + n <= size
    THEN <<TRUE, SWL_append(logs, n, now)>>
    ELSE <<FALSE, logs>>

\* SlidingWindowLogInner::remove_older_than: retain the entries t >= threshold.
SWL_remove_older_thanMutantGt(logs, threshold) ==
  SelectSeq(logs, LAMBDA t : t > threshold)
SWL_remove_older_than(logs, threshold) ==
  SelectSeq(logs, LAMBDA t : t >= threshold)

\* "self.logs.len() as u64 + n" in try_accept, a u64 sum, when it is out of
\* range: a build with overflow checks panics at the sum; a build without
\* them wraps it, and when the wrapped sum passes the test against size,
\* "vec![now; n as usize]" in append panics (capacity overflow: n is within
\* logs.len() of u64::MAX).
SWL_try_accept_panics(logs, n, size) ==
  /\ Len(logs) + n > U64Max
  /\ overflow_checks \/ (Len(logs) + n) % U64Mod <= size

\* SlidingWindowLog::allow_n(n): the fast path, then prune and try again.
\* lock().expect(..) panics once an earlier call has panicked holding the
\* lock, so no call runs after a panic.  (The pruned log is no longer than
\* the log, so the second try_accept does not panic when the first did not.)
SWL_allow_n(n) ==
  LET first == SWL_try_accept(swl_logs, n, swl_now, swl_size)
      threshold == swl_now - swl_interval
      pruned == SWL_remove_older_than(swl_logs, threshold)
      second == SWL_try_accept(pruned, n, swl_now, swl_size)
      res == IF first[1] THEN first ELSE second
  IN /\ swl_ret # "panic"
     /\ IF SWL_try_accept_panics(swl_logs, n, swl_size)
          THEN /\ swl_logs' = swl_logs
               /\ swl_ret' = "panic"
               /\ swl_admitted' = swl_admitted
          ELSE /\ swl_logs' = res[2]
               /\ swl_ret' = IF res[1] THEN "true" ELSE "false"
               /\ swl_admitted' = IF res[1] THEN [swl_admitted EXCEPT ![swl_now] = @ + n]
                                  ELSE swl_admitted
     /\ UNCHANGED <<swl_size, swl_interval, swl_now>>
     /\ UNCHANGED SWL_Others

\* The clock advances by one tick.
SWL_Tick ==
  /\ swl_now < MaxTime
  /\ swl_now' = swl_now + 1
  /\ UNCHANGED <<swl_size, swl_interval, swl_logs, swl_admitted, swl_ret>>
  /\ UNCHANGED SWL_Others

SWL_Next ==
  \/ \E n \in Units : SWL_allow_n(n)
  \/ SWL_Tick

\* The calls ask for any number of units a u64 holds.
SWL_WideNext ==
  \/ \E n \in WideUnits : SWL_allow_n(n)
  \/ SWL_Tick

(***************************************************************************)
(* SlidingWindowCount (sliding_window_count.rs)                            *)
(***************************************************************************)
\* self.buckets.len()
SWC_len(buckets) == Cardinality(DOMAIN buckets)

\* SlidingWindowCount::new: bucket_count empty buckets, each covering
\* interval.div_f64(bucket_count).
SWC_New(win_size, interval, bucket_count) ==
  /\ swc_interval = interval
  /\ swc_buckets = [i \in 0..(bucket_count - 1) |-> 0]
  /\ swc_win_size = win_size
  /\ swc_bucket_interval = interval \div bucket_count
  /\ swc_last_update = 0
  /\ swc_last_index = 0
  /\ swc_now = 0
  /\ swc_admitted = NoneAdmitted
  /\ swc_ret = "none"

\* The intervals given are whole multiples of bucket_count ticks.
SWC_Init ==
  \E win_size \in 1..MaxSize, bucket_count \in 1..MaxBuckets,
     b \in 1..MaxBucketInterval :
    SWC_New(win_size, bucket_count * b, bucket_count)

\* The limiters of the wide specification: buckets of one tick.
SWC_WideInit ==
  \E win_size \in 1..MaxSize, bucket_count \in 1..MaxBuckets :
    SWC_New(win_size, bucket_count, bucket_count)

\* SlidingWindowCountInner::bucket_passed
SWC_bucket_passed(now, last_update, bucket_interval, buckets) ==
  LET elapsed == now - last_update
      count == elapsed \div bucket_interval
  IN IF count > SWC_len(buckets) THEN SWC_len(buckets) ELSE count

\* The "for i in 0..bucket_passed" loop of update_buckets: the buckets at
\* (i + last_index) % len are set to 0.
SWC_clearedMutantNone(buckets, last_index, bucket_passed) == buckets
SWC_clearedMutantNext(buckets, last_index, bucket_passed) ==
  [idx \in DOMAIN buckets |->
     IF \E i \in 1..bucket_passed : idx = (i + last_index) % SWC_len(buckets)
       THEN 0
       ELSE buckets[idx]]
SWC_cleared(buckets, last_index, bucket_passed) ==
  [idx \in DOMAIN buckets |->
     IF \E i \in 0..(bucket_passed - 1) : idx = (i + last_index) % SWC_len(buckets)
       THEN 0
       ELSE buckets[idx]]

\* SlidingWindowCountInner::update_buckets:
\* <<buckets, last_index, last_update>> after the call.
SWC_update_bucketsMutantNoWrap(now, buckets, last_index, last_update, bucket_interval) ==
  LET bucket_passed == SWC_bucket_passed(now, last_update, bucket_interval, buckets)
  IN <<SWC_cleared(buckets, last_index, bucket_passed),
       last_index + bucket_passed,
       now>>
SWC_update_buckets(now, buckets, last_index, last_update, bucket_interval) ==
  LET bucket_passed == SWC_bucket_passed(now, last_update, bucket_interval, buckets)
  IN <<SWC_cleared(buckets, last_index, bucket_passed),
       (last_index + bucket_passed) % SWC_len(buckets),
       now>>

\* SlidingWindowCountInner::total_count
RECURSIVE SWC_SumTo(_, _)
SWC_SumTo(buckets, i) == IF i < 0 THEN 0 ELSE buckets[i] + SWC_SumTo(buckets, i - 1)
SWC_total_count(buckets) == SWC_SumTo(buckets, SWC_len(buckets) - 1)

\* SlidingWindowCountInner::add_requests: "+= n" on a u64; the sum wraps in a
\* build without overflow checks (with them, allow_n has panicked before).
SWC_add_requests(buckets, last_index, n) ==
  [buckets EXCEPT ![last_index] = (@ + n) % U64Mod]

\* "inner.total_count() + n", a u64 sum: it is out of range ...
SWC_sum_overflows(total, n) == total + n > U64Max
\* ... and wraps in a build without overflow checks.
SWC_sum(total, n) == (total + n) % U64Mod

\* SlidingWindowCount::allow_n(n).  A panic at the sum comes after
\* update_buckets has run; lock().unwrap() panics once an earlier call has
\* panicked holding the lock, so no call runs after a panic.  The history
\* counts the units admitted at one tick up to win_size + 1 (more than
\* win_size).
SWC_allow_n(n) ==
  LET u == SWC_update_buckets(swc_now, swc_buckets, swc_last_index,
                              swc_last_update, swc_bucket_interval)
  IN /\ swc_ret # "panic"
     /\ swc_last_index' = u[2]
     /\ swc_last_update' = u[3]
     /\ IF overflow_checks /\ SWC_sum_overflows(SWC_total_count(u[1]), n)
          THEN /\ swc_buckets' = u[1]
               /\ swc_admitted' = swc_admitted
               /\ swc_ret' = "panic"
          ELSE IF SWC_sum(SWC_total_count(u[1]), n) <= swc_win_size
          THEN /\ swc_buckets' = SWC_add_requests(u[1], u[2], n)
               /\ swc_admitted' = [swc_admitted EXCEPT
                                     ![swc_now] = Min(@ + n, swc_win_size + 1)]
               /\ swc_ret' = "true"
          ELSE /\ swc_buckets' = u[1]
               /\ swc_admitted' = swc_admitted
               /\ swc_ret' = "false"
     /\ UNCHANGED <<swc_interval, swc_win_size, swc_bucket_interval, swc_now>>
     /\ UNCHANGED SWC_Others

\* The clock advances by one tick.
SWC_Tick ==
  /\ swc_now < MaxTime
  /\ swc_now' = swc_now + 1
  /\ UNCHANGED <<swc_interval, swc_buckets, swc_win_size, swc_bucket_interval,
                 swc_last_update, swc_last_index, swc_admitted, swc_ret>>
  /\ UNCHANGED SWC_Others

SWC_Next ==
  \/ \E n \in Units : SWC_allow_n(n)
  \/ SWC_Tick

\* The calls ask for any number of units a u64 holds.
SWC_WideNext ==
  \/ \E n \in WideUnits : SWC_allow_n(n)
  \/ SWC_Tick

(***************************************************************************)
(* Threads on one shared non-blocking limiter.  allow_n takes the limiter's *)
(* mutex in its first statement and holds the guard until it returns; here  *)
(* a call is three steps (the lock, the clock read with the time            *)
(* bookkeeping, the admission with the return), and the clock and the       *)
(* other threads run between them.                                          *)
(***************************************************************************)
\* Mutex::lock: the mutex can be taken.
TH_LockFreeMutantAlways(lock) == TRUE
TH_LockFree(lock) == lock = 0

\* self.inner.lock() at the head of allow_n(n): thread c takes the free mutex.
TH_Lock(c, n) ==
  /\ th_on # "none"
  /\ th_pc[c] = "idle"
  /\ \A d \in Threads : d < c => th_pc[d] # "idle"
  /\ TH_LockFree(th_lock)
  /\ th_lock' = c
  /\ th_pc' = [th_pc EXCEPT ![c] = "locked"]
  /\ th_n' = [th_n EXCEPT ![c] = n]
  /\ UNCHANGED <<th_on, th_now, th_ret, th_serial>>
  /\ UNCHANGED <<lb_vars, fw_vars, tb_vars, swl_vars, swc_vars, overflow_checks>>

\* What a thread's step leaves alone of the threads' variables, given the
\* thread's new position, clock reading, return value and serial outcome.
TH_Step(c, pc, now, ret, serial) ==
  /\ th_pc' = [th_pc EXCEPT ![c] = pc]
  /\ th_now' = [th_now EXCEPT ![c] = now]
  /\ th_ret' = [th_ret EXCEPT ![c] = ret]
  /\ th_serial' = [th_serial EXCEPT ![c] = serial]
  /\ th_lock' = IF pc = "done" THEN 0 ELSE th_lock
  /\ UNCHANGED <<th_on, th_n>>

\* FixedWindow::allow_n(n) run alone at now on the fields given:
\* <<<<count, last_update, next_win_time>>, return>>.
FW_Serial(n, now, count, last_update, next_win_time, size, interval) ==
  LET w == FW_Window(now, count, last_update, next_win_time, interval)
  IN IF FW_Fits(w[1], n, size)
       THEN <<<<FW_sum(w[1], n), w[2], w[3]>>, "true">>
       ELSE <<w, "false">>

\* FixedWindow::allow_n, "let now = Instant::now()" and the window block.
FW_allow_n_window(c) ==
  LET w == FW_Window(fw_now, fw_count, fw_last_update, fw_next_win_time, fw_interval)
  IN /\ th_on = "FW"
     /\ th_pc[c] = "locked"
     /\ fw_count' = w[1]
     /\ fw_last_update' = w[2]
     /\ fw_next_win_time' = w[3]
     /\ TH_Step(c, "admit", fw_now, "none",
                FW_Serial(th_n[c], fw_now, fw_count, fw_last_update,
                          fw_next_win_time, fw_size, fw_interval))
     /\ UNCHANGED <<fw_size, fw_interval, fw_now, fw_admitted, fw_ret>>
     /\ UNCHANGED FW_Limiters

\* FixedWindow::allow_n, the admission test, the count and the return.
FW_allow_n_admit(c) ==
  LET ok == FW_Fits(fw_count, th_n[c], fw_size)
  IN /\ th_on = "FW"
     /\ th_pc[c] = "admit"
     /\ fw_count' = IF ok THEN FW_sum(fw_count, th_n[c]) ELSE fw_count
     /\ fw_admitted' = IF ok THEN [fw_admitted EXCEPT
                                     ![th_now[c]] = Min(@ + th_n[c], fw_size + 1)]
                        ELSE fw_admitted
     /\ fw_ret' = IF ok THEN "true" ELSE "false"
     /\ TH_Step(c, "done", th_now[c], IF ok THEN "true" ELSE "false", th_serial[c])
     /\ UNCHANGED <<fw_size, fw_interval, fw_now, fw_last_update, fw_next_win_time>>
     /\ UNCHANGED FW_Limiters

FW_ThreadsTick == th_on = "FW" /\ FW_Tick

\* TokenBucket::allow_n(n) run alone at now on the fields given:
\* <<<<tokens, last_refill_time>>, return>>.
TB_Serial(n, now, tokens, last_refill_time, capacity, refill_rate, refill_interval) ==
  LET a == TB_advance(now, tokens, last_refill_time, capacity, refill_rate,
                      refill_interval)
  IN IF n > a[1] THEN <<a, "false">> ELSE <<<<a[1] - n, a[2]>>, "true">>

\* TokenBucket::allow_n, inner.advance().
TB_allow_n_advance(c) ==
  LET a == TB_advance(tb_now, tb_tokens, tb_last_refill_time, tb_capacity,
                      tb_refill_rate, tb_refill_interval)
  IN /\ th_on = "TB"
     /\ th_pc[c] = "locked"
     /\ tb_tokens' = a[1]
     /\ tb_last_refill_time' = a[2]
     /\ TH_Step(c, "admit", tb_now, "none",
                TB_Serial(th_n[c], tb_now, tb_tokens, tb_last_refill_time,
                          tb_capacity, tb_refill_rate, tb_refill_interval))
     /\ UNCHANGED <<tb_capacity, tb_refill_rate, tb_refill_interval, tb_now,
                    tb_admitted, tb_ret>>
     /\ UNCHANGED TB_Limiters

\* TokenBucket::allow_n, the test of n against tokens, the consumption and
\* the return.
TB_allow_n_admit(c) ==
  LET ok == ~(th_n[c] > tb_tokens)
  IN /\ th_on = "TB"
     /\ th_pc[c] = "admit"
     /\ tb_tokens' = IF ok THEN tb_tokens - th_n[c] ELSE tb_tokens
     /\ tb_admitted' = IF ok THEN [tb_admitted EXCEPT
                                     ![th_now[c]] = Min(@ + th_n[c], tb_capacity + 1)]
                        ELSE tb_admitted
     /\ tb_ret' = IF ok THEN "true" ELSE "false"
     /\ TH_Step(c, "done", th_now[c], IF ok THEN "true" ELSE "false", th_serial[c])
     /\ UNCHANGED <<tb_capacity, tb_refill_rate, tb_refill_interval, tb_now,
                    tb_last_refill_time>>
     /\ UNCHANGED TB_Limiters

TB_ThreadsTick == th_on = "TB" /\ TB_Tick

\* SlidingWindowLog::allow_n(n) run alone at now on the log given:
\* <<<<logs>>, return>>.
SWL_Serial(n, now, logs, size, interval) ==
  LET first == SWL_try_accept(logs, n, now, size)
      second == SWL_try_accept(SWL_remove_older_than(logs, now - interval),
                               n, now, size)
      res == IF first[1] THEN first ELSE second
  IN <<<<res[2]>>, IF res[1] THEN "true" ELSE "false">>

\* SlidingWindowLog::allow_n, "let now = Instant::now()" and the first
\* try_accept: the call returns true, or it prunes the log and goes on.
SWL_allow_n_accept(c) ==
  LET first == SWL_try_accept(swl_logs, th_n[c], swl_now, swl_size)
      serial == SWL_Serial(th_n[c], swl_now, swl_logs, swl_size, swl_interval)
  IN /\ th_on = "SWL"
     /\ th_pc[c] = "locked"
     /\ IF first[1]
          THEN /\ swl_logs' = first[2]
               /\ swl_admitted' = [swl_admitted EXCEPT ![swl_now] = @ + th_n[c]]
               /\ swl_ret' = "true"
               /\ TH_Step(c, "done", swl_now, "true", serial)
          ELSE /\ swl_logs' = SWL_remove_older_than(swl_logs, swl_now - swl_interval)
               /\ UNCHANGED <<swl_admitted, swl_ret>>
               /\ TH_Step(c, "admit", swl_now, "none", serial)
     /\ UNCHANGED <<swl_size, swl_interval, swl_now>>
     /\ UNCHANGED SWL_Limiters

\* SlidingWindowLog::allow_n, the second try_accept and the return.
SWL_allow_n_retry(c) ==
  LET second == SWL_try_accept(swl_logs, th_n[c], th_now[c], swl_size)
  IN /\ th_on = "SWL"
     /\ th_pc[c] = "admit"
     /\ swl_logs' = second[2]
     /\ swl_admitted' = IF second[1]
                         THEN [swl_admitted EXCEPT ![th_now[c]] = @ + th_n[c]]
                         ELSE swl_admitted
     /\ swl_ret' = IF second[1] THEN "true" ELSE "false"
     /\ TH_Step(c, "done", th_now[c], IF second[1] THEN "true" ELSE "false",
                th_serial[c])
     /\ UNCHANGED <<swl_size, swl_interval, swl_now>>
     /\ UNCHANGED SWL_Limiters

SWL_ThreadsTick == th_on = "SWL" /\ SWL_Tick

\* SlidingWindowCount::allow_n(n) run alone at now on the fields given:
\* <<<<buckets, last_index, last_update>>, return>>.
SWC_Serial(n, now, buckets, last_index, last_update, bucket_interval, win_size) ==
  LET u == SWC_update_buckets(now, buckets, last_index, last_update, bucket_interval)
  IN IF SWC_total_count(u[1]) + n <= win_size
       THEN <<<<SWC_add_requests(u[1], u[2], n), u[2], u[3]>>, "true">>
       ELSE <<u, "false">>

\* SlidingWindowCount::allow_n, inner.update_buckets().
SWC_allow_n_update(c) ==
  LET u == SWC_update_buckets(swc_now, swc_buckets, swc_last_index,
                              swc_last_update, swc_bucket_interval)
  IN /\ th_on = "SWC"
     /\ th_pc[c] = "locked"
     /\ swc_buckets' = u[1]
     /\ swc_last_index' = u[2]
     /\ swc_last_update' = u[3]
     /\ TH_Step(c, "admit", swc_now, "none",
                SWC_Serial(th_n[c], swc_now, swc_buckets, swc_last_index,
                           swc_last_update, swc_bucket_interval, swc_win_size))
     /\ UNCHANGED <<swc_interval, swc_win_size, swc_bucket_interval, swc_now,
                    swc_admitted, swc_ret>>
     /\ UNCHANGED SWC_Limiters

\* SlidingWindowCount::allow_n, the test of total_count() + n, add_requests
\* and the return.
SWC_allow_n_admit(c) ==
  LET ok == SWC_total_count(swc_buckets) + th_n[c] <= swc_win_size
  IN /\ th_on = "SWC"
     /\ th_pc[c] = "admit"
     /\ swc_buckets' = IF ok THEN SWC_add_requests(swc_buckets, swc_last_index, th_n[c])
                       ELSE swc_buckets
     /\ swc_admitted' = IF ok THEN [swc_admitted EXCEPT ![th_now[c]] = @ + th_n[c]]
                        ELSE swc_admitted
     /\ swc_ret' = IF ok THEN "true" ELSE "false"
     /\ TH_Step(c, "done", th_now[c], IF ok THEN "true" ELSE "false", th_serial[c])
     /\ UNCHANGED <<swc_interval, swc_win_size, swc_bucket_interval, swc_now,
                    swc_last_index, swc_last_update>>
     /\ UNCHANGED SWC_Limiters

SWC_ThreadsTick == th_on = "SWC" /\ SWC_Tick

TH_Next ==
  \/ \E c \in Threads, n \in Units : TH_Lock(c, n)
  \/ \E c \in Threads : FW_allow_n_window(c)
  \/ \E c \in Threads : FW_allow_n_admit(c)
  \/ FW_ThreadsTick
  \/ \E c \in Threads : TB_allow_n_advance(c)
  \/ \E c \in Threads : TB_allow_n_admit(c)
  \/ TB_ThreadsTick
  \/ \E c \in Threads : SWL_allow_n_accept(c)
  \/ \E c \in Threads : SWL_allow_n_retry(c)
  \/ SWL_ThreadsTick
  \/ \E c \in Threads : SWC_allow_n_update(c)
  \/ \E c \in Threads : SWC_allow_n_admit(c)
  \/ SWC_ThreadsTick

(***************************************************************************)
(* Specifications: one limiter runs, the others stay as constructed.       *)
(***************************************************************************)
\* The threads before their calls.
TH_New(on) ==
  /\ th_on = on
  /\ th_lock = 0
  /\ th_pc = [c \in Threads |-> "idle"]
  /\ th_n = [c \in Threads |-> 0]
  /\ th_now = [c \in Threads |-> 0]
  /\ th_ret = [c \in Threads |-> "none"]
  /\ th_serial = [c \in Threads |-> <<>>]

\* No threads: the calls of a specification come one at a time.
TH_Parked == TH_New("none")

\* Without a call that overflows, the build makes no difference.
NoOverflowChecks == overflow_checks = FALSE
AnyBuild == overflow_checks \in BOOLEAN

LB_Parked == LB_New(1, 1)
FW_Parked == FW_New(1, 1)
TB_Parked == TB_New(1, 1, 1)
SWL_Parked == SWL_New(1, 1)
SWC_Parked == SWC_New(1, 1, 1)

InitLB == LB_Init /\ FW_Parked /\ TB_Parked /\ SWL_Parked /\ SWC_Parked /\ NoOverflowChecks /\ TH_Parked
SpecLB == InitLB /\ [][LB_Next]_vars

\* Scheduling: the clock advances, and the leak thread and every caller
\* thread that can take a step is eventually scheduled.
FairSpecLB ==
  /\ SpecLB
  /\ WF_vars(LB_Tick)
  /\ WF_vars(LB_LoopStep)
  /\ \A c \in Callers : WF_vars(LB_CallerStep(c))

InitFW == FW_Init /\ LB_Parked /\ TB_Parked /\ SWL_Parked /\ SWC_Parked /\ NoOverflowChecks /\ TH_Parked
SpecFW == InitFW /\ [][FW_Next]_vars

\* FixedWindow left alone for long times between calls.
SpecFWIdle == InitFW /\ [][FW_IdleNext]_vars

\* FixedWindow constructed with any size and interval, zero included.
InitFWAnyConfig ==
  FW_AnyInit /\ LB_Parked /\ TB_Parked /\ SWL_Parked /\ SWC_Parked
    /\ NoOverflowChecks /\ TH_Parked
SpecFWAnyConfig == InitFWAnyConfig /\ [][FW_Next]_vars

\* FixedWindow with calls of any size, in either build.
InitFWWide ==
  FW_Init /\ LB_Parked /\ TB_Parked /\ SWL_Parked /\ SWC_Parked /\ AnyBuild /\ TH_Parked
SpecFWWide == InitFWWide /\ [][FW_WideNext]_vars

InitTB == TB_Init /\ LB_Parked /\ FW_Parked /\ SWL_Parked /\ SWC_Parked /\ NoOverflowChecks /\ TH_Parked
SpecTB == InitTB /\ [][TB_Next]_vars

\* TokenBucket left alone for long times between calls.
SpecTBIdle == InitTB /\ [][TB_IdleNext]_vars

\* TokenBucket with refill rates of any size, in either build.
InitTBWide ==
  TB_WideInit /\ LB_Parked /\ FW_Parked /\ SWL_Parked /\ SWC_Parked /\ AnyBuild /\ TH_Parked
SpecTBWide == InitTBWide /\ [][TB_Next]_vars

InitSWL == SWL_Init /\ LB_Parked /\ FW_Parked /\ TB_Parked /\ SWC_Parked /\ NoOverflowChecks /\ TH_Parked
SpecSWL == InitSWL /\ [][SWL_Next]_vars

\* SlidingWindowLog called with any n of the u64 range, in either build.
InitSWLWide ==
  SWL_Init /\ LB_Parked /\ FW_Parked /\ TB_Parked /\ SWC_Parked /\ AnyBuild /\ TH_Parked
SpecSWLWide == InitSWLWide /\ [][SWL_WideNext]_vars

InitSWC == SWC_Init /\ LB_Parked /\ FW_Parked /\ TB_Parked /\ SWL_Parked /\ NoOverflowChecks /\ TH_Parked
SpecSWC == InitSWC /\ [][SWC_Next]_vars

\* SlidingWindowCount called with any n of the u64 range, in either build.
InitSWCWide ==
  SWC_WideInit /\ LB_Parked /\ FW_Parked /\ TB_Parked /\ SWL_Parked /\ AnyBuild /\ TH_Parked
SpecSWCWide == InitSWCWide /\ [][SWC_WideNext]_vars

\* One of the four non-blocking limiters, of any configuration, is called;
\* the other limiters stay as constructed.
InitNonBlocking == InitFW \/ InitTB \/ InitSWL \/ InitSWC

NonBlocking_Next ==
  \/ TB_Parked /\ SWL_Parked /\ SWC_Parked /\ FW_Next
  \/ FW_Parked /\ SWL_Parked /\ SWC_Parked /\ TB_Next
  \/ FW_Parked /\ TB_Parked /\ SWC_Parked /\ SWL_Next
  \/ FW_Parked /\ TB_Parked /\ SWL_Parked /\ SWC_Next

SpecNonBlocking == InitNonBlocking /\ [][NonBlocking_Next]_vars

\* NumThreads threads share one of the four non-blocking limiters, of any
\* configuration, and call allow_n concurrently.
InitThreads ==
  /\ LB_Parked /\ NoOverflowChecks
  /\ \/ FW_Init /\ TB_Parked /\ SWL_Parked /\ SWC_Parked /\ TH_New("FW")
     \/ FW_Parked /\ TB_Init /\ SWL_Parked /\ SWC_Parked /\ TH_New("TB")
     \/ FW_Parked /\ TB_Parked /\ SWL_Init /\ SWC_Parked /\ TH_New("SWL")
     \/ FW_Parked /\ TB_Parked /\ SWL_Parked /\ SWC_Init /\ TH_New("SWC")
SpecThreads == InitThreads /\ [][TH_Next]_vars

(***************************************************************************)
(* Claims about LeakyBucket                                                *)
(***************************************************************************)

\* C1: FIFO by reservation: if call a completed its reserve step before call
\* b, then a's release signal is sent at or before b's: once b has been
\* signalled, a has been signalled, and earlier.
C1_FifoByReservation ==
  \A a, b \in Callers :
    (Before(lb_reserve_order, a, b) /\ InSeq(lb_release_order, b))
      => Before(lb_release_order, a, b)

\* C2: release order equals enqueue order: the calls signalled so far are
\* exactly the first ones enqueued, signalled in the order of their enqueue.
C2_ReleaseInEnqueueOrder ==
  /\ Len(lb_release_order) <= Len(lb_enqueue_order)
  /\ lb_release_order = SubSeq(lb_enqueue_order, 1, Len(lb_release_order))

\* C2 witness: two calls were released, and they had been enqueued against
\* the order of their reservations.
C2_Witness ==
  /\ Len(lb_release_order) >= 2
  /\ Before(lb_reserve_order, lb_release_order[2], lb_release_order[1])

\* C3: liveness: under fair scheduling every call that passed the reserve
\* step is eventually signalled and returns true.
C3_ReservedEventuallyAdmitted ==
  \A c \in Callers : (lb_pc[c] = "reserved") ~> (lb_pc[c] = "admitted")

\* C3 witness: on a limiter of the largest capacity a call was rejected (so
\* capacity calls held their slots together), and every call that reserved
\* has returned true.
C3_Witness ==
  /\ lb_capacity = MaxCapacity
  /\ \E c \in Callers : lb_pc[c] = "rejected"
  /\ Len(lb_reserve_order) >= lb_capacity
  /\ \A i \in 1..Len(lb_reserve_order) : lb_pc[lb_reserve_order[i]] = "admitted"

\* C4: release-rate cap: the releases sent within any time span of length
\* leak_interval (those younger than leak_interval) number at most leak_rate.
C4_ReleaseRateCap == Len(lb_release_ages) <= lb_leak_rate

\* C5: level invariant: 0 <= current_level <= capacity in every state.
C5_LevelInvariant ==
  /\ 0 <= lb_current_level
  /\ lb_current_level <= lb_capacity

\* C5 witness: the level is back at capacity after a call was admitted and
\* has done its leak-accounting decrement.
C5_Witness ==
  /\ lb_current_level = lb_capacity
  /\ \E c \in Callers : lb_pc[c] = "admitted"

\* C6: rejection at capacity: a call whose reserve step runs while
\* current_level = capacity returns false at that step, leaves current_level
\* and the waiter queue unchanged, and is never enqueued afterwards.
C6_RejectAtCapacity ==
  [][\A c \in Callers :
       /\ (lb_pc[c] = "try_allow" /\ lb_current_level = lb_capacity
             /\ lb_pc'[c] # lb_pc[c])
            => (/\ lb_pc'[c] = "rejected"
                /\ lb_current_level' = lb_current_level
                /\ lb_queue' = lb_queue
                /\ lb_enqueue_order' = lb_enqueue_order)
       /\ lb_pc[c] = "rejected"
            => (lb_pc'[c] = "rejected" /\ ~InSeq(lb_queue', c))]_vars

\* C6 witness: a call was rejected while capacity calls hold their slots.
C6_Witness ==
  /\ \E c \in Callers : lb_pc[c] = "rejected"
  /\ lb_current_level = lb_capacity
  /\ Len(lb_release_order) = 0

\* Call c is blocked in rx.recv(): its release signal has not been sent.
LB_Waiting(c) == lb_pc[c] = "recv" /\ ~lb_signalled[c]

\* C16: LeakyBucket blocks outside the lock and cannot deadlock.  No call
\* that waits on its receiver holds the mutex; the holder of the mutex can
\* always take its next step (which frees it), so with the mutex free every
\* call at its reserve, enqueue or leak-accounting step can take it; and
\* while calls are waiting, the leak loop can take its next step unless it
\* is inside its timed sleep.
C16_BlocksOutsideLock ==
  /\ \A c \in Callers : lb_pc[c] = "recv" => lb_lock # c
  /\ \A c \in Callers : lb_lock = c => ENABLED LB_CallerStep(c)
  /\ \A c \in Callers :
       (lb_lock = 0 /\ lb_pc[c] \in {"reserved", "signalled"})
         => ENABLED LB_CallerStep(c)
  /\ (\E c \in Callers : LB_Waiting(c))
       => (ENABLED LB_LoopStep \/ (lb_loop_pc = "sleep" /\ lb_sleep_left > 0))

\* C16 witness: one call is blocked on its receiver while another call is
\* inside create_notify with the mutex, and the leak loop is at its recv.
C16_Witness ==
  \E c, d \in Callers :
    /\ LB_Waiting(c)
    /\ lb_lock = d /\ lb_pc[d] = "create_notify"
    /\ lb_loop_pc = "recv"

(***************************************************************************)
(* Claims about the capacity bounds of the non-blocking limiters           *)
(***************************************************************************)

\* C7: FixedWindow trailing-window bound, as claimed: the units admitted
\* within any time span of length interval never exceed size.
C7_FixedWindowSpanWithinSize ==
  \A t \in Times : AdmittedFrom(fw_admitted, t, fw_interval) <= fw_size

\* C7, amended: the units admitted within any time span of length interval
\* (end points included) never exceed 2 * size.
C7_FixedWindowSpanWithinTwiceSize ==
  \A t \in Times : AdmittedUpTo(fw_admitted, t, fw_interval) <= 2 * fw_size

\* C7 witness: a span of length interval that straddles a window boundary
\* holds 2 * size admitted units.
C7_Witness ==
  /\ fw_interval >= 2
  /\ \E t \in Times :
       /\ t + fw_interval - 1 <= MaxTime
       /\ AdmittedFrom(fw_admitted, t, fw_interval) = 2 * fw_size

\* C8: TokenBucket trailing-window bound, as claimed: the units admitted
\* within any time span of length refill_interval never exceed capacity.
C8_TokenBucketSpanWithinCapacity ==
  \A t \in Times : AdmittedFrom(tb_admitted, t, tb_refill_interval) <= tb_capacity

\* C8, amended: the units admitted within any time span of length
\* refill_interval (end points included) never exceed
\* capacity + min(refill_rate, capacity).
C8_TokenBucketSpanWithinCapacityPlusRefill ==
  \A t \in Times :
    AdmittedUpTo(tb_admitted, t, tb_refill_interval)
      <= tb_capacity + Min(tb_refill_rate, tb_capacity)

\* C8 witness: a span of length refill_interval in which a full bucket was
\* drained and one refill was spent on top of it.
C8_Witness ==
  /\ tb_refill_interval >= 2
  /\ tb_refill_rate >= 1
  /\ \E t \in Times :
       /\ t + tb_refill_interval - 1 <= MaxTime
       /\ AdmittedFrom(tb_admitted, t, tb_refill_interval)
            = tb_capacity + Min(tb_refill_rate, tb_capacity)

\* C9: SlidingWindowLog trailing-window bound: the units admitted with
\* timestamps in any span [T - interval, T] never exceed size.
C9_SlidingWindowLogSpanWithinSize ==
  \A t \in Times : AdmittedUpTo(swl_admitted, t, swl_interval) <= swl_size

\* C9 witness: the fast path has just admitted a call, without pruning, into
\* a log that still holds an expired entry and is now full.
C9_Witness ==
  /\ swl_ret = "true"
  /\ swl_admitted[swl_now] > 0
  /\ \E i \in 1..Len(swl_logs) : swl_logs[i] < swl_now - swl_interval
  /\ Len(swl_logs) = swl_size

\* C10: SlidingWindowCount approximate bound: the units admitted within any
\* time span of length interval exceed win_size by at most the units admitted
\* during one bucket_interval (the fullest span of length bucket_interval).
C10_SlidingWindowCountSpanWithinSlack ==
  \A t \in Times :
    \E b \in Times :
      AdmittedFrom(swc_admitted, t, swc_interval)
        <= swc_win_size + AdmittedFrom(swc_admitted, b, swc_bucket_interval)

(***************************************************************************)
(* Claims about FixedWindow                                                *)
(***************************************************************************)

\* The start of the construction-aligned window that holds the instant t.
FW_WindowStart(t, interval) == interval * (t \div interval)

\* C11: window reset atomicity.  With windows aligned from the construction
\* time, (1) the units admitted inside one window never exceed size; (2) the
\* bookkeeping window starts on a multiple of interval and is one interval
\* long; and for every call allow_n(n): (3) after it the bookkeeping window
\* is the aligned window that holds now, however many windows have passed;
\* (4) the first call at or after the window's end admits any n <= size,
\* counting from 0; (5) a call inside the window does not lower the count.
C11_WindowResetAligned ==
  /\ [](\A t \in Times :
         t % fw_interval = 0 => AdmittedFrom(fw_admitted, t, fw_interval) <= fw_size)
  /\ [](/\ fw_last_update % fw_interval = 0
        /\ fw_next_win_time = fw_last_update + fw_interval)
  /\ [][\A n \in Units :
         FW_allow_n(n) =>
           /\ fw_last_update' = FW_WindowStart(fw_now, fw_interval)
           /\ (fw_now >= fw_next_win_time /\ n <= fw_size)
                => (fw_ret' = "true" /\ fw_count' = n)
           /\ (fw_now >= fw_next_win_time /\ n > fw_size)
                => (fw_ret' = "false" /\ fw_count' = 0)
           /\ fw_now < fw_next_win_time => fw_count' >= fw_count]_vars

(***************************************************************************)
(* Claims about TokenBucket                                                *)
(***************************************************************************)

\* Whole refill intervals between last_refill_time and the instant t.
TB_WholeIntervals(t) == (t - tb_last_refill_time) \div tb_refill_interval

\* min(capacity, tokens + k * refill_rate) in exact arithmetic.
TB_Replenished(k) == Min(tb_capacity, tb_tokens + k * tb_refill_rate)

\* C12: replenishment is path-independent.  In every state and for all later
\* instants t1 <= t2: advancing to t2 gives min(capacity, tokens +
\* k * refill_rate) for the k whole intervals elapsed since last_refill_time,
\* and it gives the same tokens and last_refill_time when a non-consuming
\* call has advanced the bucket at t1 in between.  Every call allow_n(n) is
\* admitted exactly when n is at most that many tokens, and a rejected call
\* leaves exactly that many.
C12_ReplenishmentPathIndependent ==
  /\ [](\A t1, t2 \in Times :
         (tb_now <= t1 /\ t1 <= t2) =>
           LET direct == TB_advance(t2, tb_tokens, tb_last_refill_time,
                                    tb_capacity, tb_refill_rate, tb_refill_interval)
               mid == TB_advance(t1, tb_tokens, tb_last_refill_time,
                                 tb_capacity, tb_refill_rate, tb_refill_interval)
               via == TB_advance(t2, mid[1], mid[2],
                                 tb_capacity, tb_refill_rate, tb_refill_interval)
           IN /\ direct[1] = TB_Replenished(TB_WholeIntervals(t2))
              /\ via = direct)
  /\ [][\A n \in Units :
         TB_allow_n(n) =>
           LET have == TB_Replenished(TB_WholeIntervals(tb_now))
           IN /\ (tb_ret' = "true") <=> (n <= have)
              /\ n > have => tb_tokens' = have]_vars

\* C12 witness: the full bucket was drained at the construction; later a
\* rejected call, made part-way into a refill interval, found it partly
\* refilled.
C12_Witness ==
  /\ tb_admitted[0] = tb_capacity
  /\ tb_ret = "false"
  /\ 0 < tb_tokens /\ tb_tokens < tb_capacity
  /\ 0 < tb_last_refill_time /\ tb_last_refill_time < tb_now

\* C13: token invariant.  0 <= tokens <= capacity in every state; and in
\* every call allow_n(n) that returns, the refill does not lower tokens, the
\* consumption does not raise them, an admitted call lowers the refilled
\* tokens by exactly n and a rejected call leaves them as refilled.
C13_TokenInvariant ==
  /\ [](0 <= tb_tokens /\ tb_tokens <= tb_capacity)
  /\ [][\A n \in Units :
         (TB_allow_n(n) /\ tb_ret' # "panic") =>
           LET refilled == TB_advance(tb_now, tb_tokens, tb_last_refill_time,
                                      tb_capacity, tb_refill_rate,
                                      tb_refill_interval)[1]
           IN /\ tb_tokens <= refilled
              /\ tb_tokens' <= refilled
              /\ tb_ret' = "true" => tb_tokens' = refilled - n
              /\ tb_ret' = "false" => tb_tokens' = refilled]_vars

\* C13 witness: with the largest refill rate, a bucket that was partly
\* drained at the construction has been refilled (the sum of tokens and
\* tokens_to_add is out of range) and a call has consumed from it.
C13_Witness ==
  /\ tb_refill_rate = U64Max
  /\ 0 < tb_admitted[0] /\ tb_admitted[0] < tb_capacity
  /\ tb_last_refill_time > 0
  /\ tb_ret = "true"
  /\ tb_admitted[tb_now] > 0
  /\ 0 < tb_tokens /\ tb_tokens < tb_capacity

(***************************************************************************)
(* Claims about the four non-blocking limiters together                    *)
(***************************************************************************)

\* C14: all-or-nothing allow_n.  A call allow_n(n) that returns true records
\* or consumes exactly n units and one that returns false none: FixedWindow's
\* count (after the window bookkeeping) gains n or nothing; TokenBucket's
\* tokens (after the refill) lose n or nothing; SlidingWindowLog's log is
\* the old log, pruned or not, followed by n entries of now, or the pruned
\* log with no new entry; SlidingWindowCount's newest bucket gains n and the
\* bucket sum grows by n, or no bucket gains anything.
C14_AllOrNothing ==
  [][/\ \A n \in Units :
         FW_allow_n(n) =>
           LET count == FW_Window(fw_now, fw_count, fw_last_update,
                                  fw_next_win_time, fw_interval)[1]
           IN /\ fw_ret' = "true" => fw_count' = count + n
              /\ fw_ret' = "false" => fw_count' = count
     /\ \A n \in Units :
         TB_allow_n(n) =>
           LET tokens == TB_advance(tb_now, tb_tokens, tb_last_refill_time,
                                    tb_capacity, tb_refill_rate,
                                    tb_refill_interval)[1]
           IN /\ tb_ret' = "true" => tb_tokens' = tokens - n
              /\ tb_ret' = "false" => tb_tokens' = tokens
     /\ \A n \in Units :
         SWL_allow_n(n) =>
           LET kept == SelectSeq(swl_logs, LAMBDA t : t >= swl_now - swl_interval)
               call == [i \in 1..n |-> swl_now]
           IN /\ swl_ret' = "true" =>
                   (swl_logs' = swl_logs \o call \/ swl_logs' = kept \o call)
              /\ swl_ret' = "false" => swl_logs' = kept
     /\ \A n \in Units :
         SWC_allow_n(n) =>
           LET kept == SWC_update_buckets(swc_now, swc_buckets, swc_last_index,
                                          swc_last_update, swc_bucket_interval)[1]
           IN /\ swc_ret' = "true" =>
                   /\ SWC_total_count(swc_buckets') = SWC_total_count(kept) + n
                   /\ swc_buckets'[swc_last_index'] = kept[swc_last_index'] + n
              /\ swc_ret' = "false" => swc_buckets' = kept]_vars

\* C14 witness: a SlidingWindowLog call was rejected although a part of its
\* n units had room in the log.
C14_Witness ==
  /\ swl_ret = "false"
  /\ 0 < Len(swl_logs) /\ Len(swl_logs) < swl_size

\* The fields of the limiter the threads share.
TH_Fields ==
  CASE th_on = "FW" -> <<fw_count, fw_last_update, fw_next_win_time>>
    [] th_on = "TB" -> <<tb_tokens, tb_last_refill_time>>
    [] th_on = "SWL" -> <<swl_logs>>
    [] th_on = "SWC" -> <<swc_buckets, swc_last_index, swc_last_update>>
    [] OTHER -> <<>>

\* Thread c is between taking the lock and returning.
TH_InCall(c) == th_pc[c] \in {"locked", "admit"}

\* C15: serialized admission.  At most one thread is inside allow_n at a
\* time, only that thread changes the limiter's fields, and when its call
\* returns, the fields and the value returned are those of the call run
\* alone, at the instant it read, on the fields it found: the concurrent
\* calls give the results and the final state of the same calls made one
\* at a time in the order in which they took the lock.
C15_SerializedAdmission ==
  /\ [](\A c, d \in Threads : (TH_InCall(c) /\ TH_InCall(d)) => c = d)
  /\ [][/\ TH_Fields' # TH_Fields =>
            \E c \in Threads : TH_InCall(c) /\ th_pc'[c] # th_pc[c]
        /\ \A c \in Threads :
            (th_pc[c] # "done" /\ th_pc'[c] = "done") =>
              <<TH_Fields', th_ret'[c]>> = th_serial'[c]]_vars

\* C15 witness: on a FixedWindow a thread's call was admitted; the other
\* thread, which read the same instant and asked for no more than size, is
\* about to be rejected because of it, and the clock has moved on since.
C15_Witness ==
  /\ th_on = "FW"
  /\ \E c, d \in Threads :
       /\ th_pc[c] = "done" /\ th_ret[c] = "true"
       /\ th_pc[d] = "admit" /\ th_serial[d][2] = "false"
       /\ th_n[d] <= fw_size
       /\ th_now[c] = th_now[d] /\ th_now[d] < fw_now

(***************************************************************************)
(* Claims about construction and the integer ranges                        *)
(***************************************************************************)

\* C17: configuration errors are rejected at construction: no allow_n call
\* ever runs (has returned) on a limiter whose size or interval is zero.
C17_NoCallOnDegenerateConfig ==
  fw_ret # "none" => (fw_size > 0 /\ fw_interval > 0)

\* C18: FixedWindow rejects every over-size request without wrap-around: a
\* call allow_n(n), for any n a u64 holds, returns false and leaves the count
\* (as the window bookkeeping left it) unchanged whenever count + n exceeds
\* size in exact arithmetic; so every call with n > size is rejected.
C18_RejectsOverSize ==
  [][\A n \in WideUnits :
       FW_allow_n(n) =>
         LET count == FW_Window(fw_now, fw_count, fw_last_update,
                                fw_next_win_time, fw_interval)[1]
         IN count + n > fw_size => (fw_ret' = "false" /\ fw_count' = count)]_vars

\* C19: TokenBucket refill saturates: for every refill_rate a u64 holds and
\* every whole-interval count k, a call allow_n(n) does not abort, and the
\* tokens its refill leaves (the tokens after the call, with the n it
\* consumed added back) are min(capacity, tokens + k * refill_rate) in exact
\* arithmetic.
C19_RefillSaturates ==
  [][\A n \in Units :
       TB_allow_n(n) =>
         /\ tb_ret' # "panic"
         /\ tb_tokens' + (IF tb_ret' = "true" THEN n ELSE 0)
              = TB_Replenished(TB_WholeIntervals(tb_now))]_vars

\* C20: TokenBucket time advance is checked, never truncated: a call
\* allow_n(n) either fails fatally or moves last_refill_time forward by
\* exactly k * refill_interval for the k = floor(elapsed / refill_interval)
\* whole intervals it credits, so that afterwards less than one
\* refill_interval separates last_refill_time from now.
C20_TimeAdvanceNotTruncated ==
  [][\A n \in Units :
       TB_allow_n(n) =>
         \/ tb_ret' = "panic"
         \/ /\ tb_last_refill_time'
                 = tb_last_refill_time + TB_WholeIntervals(tb_now) * tb_refill_interval
            /\ tb_now - tb_last_refill_time' < tb_refill_interval]_vars

(***************************************************************************)
(* Claims about SlidingWindowCount                                         *)
(***************************************************************************)

\* C21: SlidingWindowCount full wrap: a call allow_n(n) made when at least
\* the whole window interval has elapsed since the previous call (or since
\* construction) clears every bucket, so that for n <= win_size it is
\* admitted and the total count afterwards equals n.
C21_FullWrapClears ==
  [][\A n \in Units :
       (SWC_allow_n(n) /\ swc_now - swc_last_update >= swc_interval) =>
         /\ \A i \in DOMAIN swc_buckets :
              SWC_update_buckets(swc_now, swc_buckets, swc_last_index,
                                 swc_last_update, swc_bucket_interval)[1][i] = 0
         /\ n <= swc_win_size =>
              (swc_ret' = "true" /\ SWC_total_count(swc_buckets') = n)
         /\ n > swc_win_size =>
              (swc_ret' = "false" /\ SWC_total_count(swc_buckets') = 0)]_vars

\* C21 witness: the window was filled at tick 0, no unit was admitted for a
\* whole interval, and the call just made at the current tick was admitted
\* into cleared buckets.
C21_Witness ==
  /\ swc_ret = "true"
  /\ SWC_len(swc_buckets) >= 2
  /\ swc_last_update = swc_now
  /\ swc_now >= swc_interval
  /\ swc_admitted[0] = swc_win_size
  /\ \A t \in 1..(swc_now - 1) : swc_admitted[t] = 0
  /\ swc_admitted[swc_now] = swc_win_size
  /\ SWC_total_count(swc_buckets) = swc_win_size

(***************************************************************************)
(* Further claims about LeakyBucket                                        *)
(***************************************************************************)

\* allow() call c is in flight: it has started and has not returned.
LB_InFlight(c) == lb_pc[c] \notin {"idle", "rejected", "admitted"}

\* The calls that have completed their leak-accounting decrement.
LB_Decremented == {c \in Callers : lb_pc[c] = "admitted"}

\* The number of release signals sent to call c.
LB_Releases(c) == Cardinality({i \in 1..Len(lb_release_order) : lb_release_order[i] = c})

\* C22: LeakyBucket slot accounting.  In every state current_level is the
\* number of successful reservations minus the number of completed
\* leak-accounting decrements; a release signal goes only to a call that
\* reserved, and at most once; when no allow() call is in flight every
\* reserved slot has had its one signal and current_level is 0; and every
\* leak-accounting step lowers current_level by exactly one (the
\* current_level > 0 guard never skips the decrement).
C22_SlotAccounting ==
  /\ [](/\ lb_current_level = Len(lb_reserve_order) - Cardinality(LB_Decremented)
        /\ \A c \in Callers :
             /\ LB_Releases(c) <= 1
             /\ LB_Releases(c) = 1 => InSeq(lb_reserve_order, c)
             /\ lb_pc[c] \in {"signalled", "leak", "admitted"} => LB_Releases(c) = 1
        /\ (\A c \in Callers : ~LB_InFlight(c))
             => (/\ lb_current_level = 0
                 /\ \A c \in Callers :
                      InSeq(lb_reserve_order, c) => LB_Releases(c) = 1))
  /\ [][\A c \in Callers :
          LB_Leak(c) => (lb_current_level > 0
                         /\ lb_current_level' = lb_current_level - 1)]_vars

\* C22 witness: every call has returned, capacity of them admitted and one
\* rejected, and the level is back at 0.
C22_Witness ==
  /\ \A c \in Callers : lb_pc[c] \in {"rejected", "admitted"}
  /\ \E c \in Callers : lb_pc[c] = "rejected"
  /\ Cardinality(LB_Decremented) = MaxCapacity
  /\ lb_current_level = 0

\* C23: LeakyBucket discards unused leak budget: when the leak loop is at a
\* pass of its "for _ in 0..leak_rate" and the waiter queue is empty, it is
\* not held there: it can take its next step, which signals nothing, and go
\* on to the wait for the next interval, so that a waiter enqueued later is
\* not released out of this tick's budget.
C23_IdleBudgetDiscarded ==
  (lb_loop_pc = "recv" /\ lb_queue = <<>>) => ENABLED LB_LoopStep

(***************************************************************************)
(* Claims about SlidingWindowLog                                           *)
(***************************************************************************)

\* The log a reference limiter holds after allow_n(n) at now: it prunes the
\* expired entries on every call, then admits when there is room.
SWL_Reference(logs, n, now, size, interval) ==
  SWL_try_accept(SWL_remove_older_than(logs, now - interval), n, now, size)

\* C24: SlidingWindowLog is an exact sliding window.  For every call
\* allow_n(n): it returns true if and only if the units admitted before it
\* with a timestamp >= now - interval, plus n, are at most size; that
\* decision is the one of the reference limiter that prunes on every call;
\* and the log it leaves holds, in its entries not yet expired, the log of
\* the reference limiter (so the next decisions agree as well).
C24_ExactSlidingWindow ==
  [][\A n \in WideUnits :
       SWL_allow_n(n) =>
         LET live == AdmittedUpTo(swl_admitted, swl_now, swl_interval)
             ref == SWL_Reference(swl_logs, n, swl_now, swl_size, swl_interval)
         IN /\ swl_ret' = "true" <=> live + n <= swl_size
            /\ swl_ret' = "true" <=> ref[1]
            /\ swl_ret' # "panic" =>
                 SWL_remove_older_than(swl_logs', swl_now - swl_interval) = ref[2]]_vars

\* C24 witness: a call was rejected after pruning: units admitted earlier
\* have expired, and the log is full of unexpired entries admitted at
\* different ticks.
C24_Witness ==
  /\ swl_ret = "false"
  /\ swl_size >= 2
  /\ Len(swl_logs) = swl_size
  /\ \A i \in 1..Len(swl_logs) : swl_logs[i] >= swl_now - swl_interval
  /\ swl_logs[1] < swl_logs[Len(swl_logs)]
  /\ \E t \in Times : t < swl_now - swl_interval /\ swl_admitted[t] > 0

(***************************************************************************)
(* Further claims about SlidingWindowCount                                 *)
(***************************************************************************)

\* C25: SlidingWindowCount accounting invariant: in every state the sum of
\* all bucket counters is at most win_size and last_index is a valid ring
\* index, 0 <= last_index < bucket_count.
C25_AccountingInvariant ==
  /\ SWC_total_count(swc_buckets) <= swc_win_size
  /\ \A i \in DOMAIN swc_buckets : swc_buckets[i] >= 0
  /\ 0 <= swc_last_index
  /\ swc_last_index < SWC_len(swc_buckets)

\* C25 witness: more than a whole window after the construction a call was
\* admitted into a bucket other than the first, and the window is full.
C25_Witness ==
  /\ swc_ret = "true"
  /\ swc_last_index > 0
  /\ swc_now >= swc_interval + swc_bucket_interval
  /\ swc_last_update = swc_now
  /\ SWC_total_count(swc_buckets) = swc_win_size

C27_RecoversUnderPolling ==
  [][(SWC_allow_n(1)
        /\ \A t \in Times :
             (swc_now - swc_interval < t /\ t <= swc_now) => swc_admitted[t] = 0)
       => swc_ret' = "true"]_vars

====
